---- MODULE Spec2Model ----
(***************************************************************************)
(* Twin growth calculator (src/script.js): the two reference-table loaders, *)
(* the percentile interpolation engine (calculateEFWPercentile,             *)
(* calculateACPercentile, findNearestEfwWeekIndex, findNearestGA) and the   *)
(* results/discordancy handler.                                             *)
(*                                                                          *)
(* JavaScript numbers are modelled as exact rationals [k, n, d] with k the  *)
(* kind of the value ("num", "NaN", "undefined", "null"); every comparison  *)
(* with a value that is not a number is false, as in JavaScript.            *)
(***************************************************************************)
EXTENDS Integers, Sequences, FiniteSets, TLC

VARIABLES efwCsv, acCsv,          \* the two data files
          twinEfwCurves, twinAcTable, growthChart,   \* the globals of script.js
          loaded,                  \* the loaders that have completed
          call,                    \* the engine call in progress and its result
          fields, results,         \* the values of the input and result elements
          handlersAttached,        \* attachInputHandlers has run
          failed,                  \* the loaders whose promise was rejected
          errorLogged              \* the catch of loadData has called console.error

engineVars == <<efwCsv, acCsv, twinEfwCurves, twinAcTable, loaded, call>>
uiVars == <<growthChart, fields, results, handlersAttached>>
loadVars == <<failed, errorLogged>>
vars == <<efwCsv, acCsv, twinEfwCurves, twinAcTable, growthChart, loaded, call,
          fields, results, handlersAttached, failed, errorLogged>>

-----------------------------------------------------------------------------
(* Bounds of the model *)

MaxRows == 2
MaxCell == 3
\* the marker datasets on the chart beyond which no further edit is explored
MaxMarkers == 3

-----------------------------------------------------------------------------
(* JavaScript values *)

RECURSIVE GCD(_, _)
GCD(a, b) == IF b = 0 THEN a ELSE GCD(b, a % b)

AbsInt(i) == IF i < 0 THEN -i ELSE i

Rat(n, d) ==
    LET g == GCD(AbsInt(n), AbsInt(d))
        s == IF d < 0 THEN -1 ELSE 1
    IN  [k |-> "num", n |-> (s * n) \div g, d |-> (s * d) \div g]

Num(i) == [k |-> "num", n |-> i, d |-> 1]
NaN == [k |-> "NaN", n |-> 0, d |-> 1]
Undefined == [k |-> "undefined", n |-> 0, d |-> 1]
Null == [k |-> "null", n |-> 0, d |-> 1]

IsNum(x) == x.k = "num"

\* isNaN(x): Number(undefined) is NaN, Number(null) is 0
isNaN(x) == x.k \in {"NaN", "undefined"}

\* ToNumber, as applied by the arithmetic and relational operators
ToNumber(x) == IF x.k = "null" THEN Num(0) ELSE IF x.k = "num" THEN x ELSE NaN

Lt(x, y) == LET a == ToNumber(x) b == ToNumber(y)
            IN  IsNum(a) /\ IsNum(b) /\ a.n * b.d < b.n * a.d
Le(x, y) == LET a == ToNumber(x) b == ToNumber(y)
            IN  IsNum(a) /\ IsNum(b) /\ a.n * b.d <= b.n * a.d
Gt(x, y) == Lt(y, x)
Ge(x, y) == Le(y, x)
\* x === y on numbers: NaN is not equal to anything
StrictEq(x, y) == IsNum(x) /\ IsNum(y) /\ x.n * y.d = y.n * x.d

Add(x, y) == LET a == ToNumber(x) b == ToNumber(y)
             IN  IF IsNum(a) /\ IsNum(b) THEN Rat(a.n * b.d + b.n * a.d, a.d * b.d) ELSE NaN
Sub(x, y) == LET a == ToNumber(x) b == ToNumber(y)
             IN  IF IsNum(a) /\ IsNum(b) THEN Rat(a.n * b.d - b.n * a.d, a.d * b.d) ELSE NaN
Mul(x, y) == LET a == ToNumber(x) b == ToNumber(y)
             IN  IF IsNum(a) /\ IsNum(b) THEN Rat(a.n * b.n, a.d * b.d) ELSE NaN
\* x / y; the model never divides a number by zero (see calculate*Percentile)
Div(x, y) == LET a == ToNumber(x) b == ToNumber(y)
             IN  IF IsNum(a) /\ IsNum(b) /\ b.n # 0 THEN Rat(a.n * b.d, a.d * b.n) ELSE NaN
MathAbs(x) == LET a == ToNumber(x)
              IN  IF IsNum(a) THEN [a EXCEPT !.n = AbsInt(a.n)] ELSE NaN

\* arr[i] for a 0-based index: undefined outside the array
At(arr, i) == IF i + 1 \in DOMAIN arr THEN arr[i + 1] ELSE Undefined

-----------------------------------------------------------------------------
(* The two CSV files: a header of percentile labels and data lines.  A cell  *)
(* is the text between two commas: k = "num" when parseFloat reads the       *)
(* number n/d from it, k = "text" when it reads none.                        *)

NumCell(n, d) == [k |-> "num", n |-> n, d |-> d]
TextCell == [k |-> "text", n |-> 0, d |-> 1]

\* parseFloat(s); parseFloat(undefined) is NaN
parseFloat(c) == IF c.k = "num" THEN Rat(c.n, c.d) ELSE NaN

\* a header label: 'q' followed by body, or body alone
QLabel(n, d) == [q |-> TRUE, body |-> NumCell(n, d)]
BareLabel(n) == [q |-> FALSE, body |-> NumCell(n, 1)]
BadLabel == [q |-> FALSE, body |-> TextCell]

\* faulty variant: every label is multiplied by 100, 'q' or not
parsePercentileHeaderAllScaled(h) ==
    LET num == parseFloat(h.body)
    IN  IF isNaN(num) THEN NaN ELSE Mul(num, Num(100))

\* the percentile a header label stands for (script.js 37-45 and 78-86)
parsePercentileHeader(h) ==
    IF h.q
    THEN LET num == parseFloat(h.body)
         IN  IF isNaN(num) THEN NaN ELSE Mul(num, Num(100))
    ELSE parseFloat(h.body)

Line(ga, cells) == [blank |-> FALSE, ga |-> ga, cells |-> cells]

-----------------------------------------------------------------------------
(* loadTwinEfwCurves: the table built from the EFW file *)

\* faulty variant: a row is stored whatever its first column holds
efwPushLineNoSkip(t, line) ==
    IF line.blank THEN t
    ELSE [t EXCEPT
            !.weeks = Append(@, parseFloat(line.ga)),
            !.data = [idx \in DOMAIN @ |->
                        IF idx \in DOMAIN line.cells
                        THEN Append(@[idx], parseFloat(line.cells[idx]))
                        ELSE @[idx]]]

\* one data line: lines.slice(1).forEach(line => ...)
efwPushLine(t, line) ==
    IF line.blank THEN t
    ELSE LET ga == parseFloat(line.ga)
         IN  IF isNaN(ga) THEN t
             ELSE [t EXCEPT
                     !.weeks = Append(@, ga),
                     !.data = [idx \in DOMAIN @ |->
                                 IF idx \in DOMAIN line.cells
                                 THEN Append(@[idx], parseFloat(line.cells[idx]))
                                 ELSE @[idx]]]

\* twinEfwCurves.data[idx] is undefined for a cell beyond the header's columns:
\* its push throws a TypeError, after the cells before it were pushed
efwLineThrows(t, line) ==
    /\ ~line.blank
    /\ ~isNaN(parseFloat(line.ga))
    /\ Len(line.cells) > Len(t.data)

RECURSIVE efwPushLines(_, _)
efwPushLines(t, lines) ==
    IF lines = <<>> THEN t
    ELSE IF efwLineThrows(t, Head(lines)) THEN efwPushLine(t, Head(lines))
    ELSE efwPushLines(efwPushLine(t, Head(lines)), Tail(lines))

loadTwinEfwCurves(csv) ==
    efwPushLines([weeks |-> <<>>,
                  percentiles |-> [i \in DOMAIN csv.header |->
                                     parsePercentileHeader(csv.header[i])],
                  data |-> [i \in DOMAIN csv.header |-> <<>>]],
                 csv.lines)

\* loadTwinEfwCurves ends by a TypeError: its promise is rejected
efwLoadThrows(csv) ==
    \E i \in DOMAIN csv.lines :
        efwLineThrows([data |-> [j \in DOMAIN csv.header |-> <<>>]], csv.lines[i])

-----------------------------------------------------------------------------
(* loadTwinAcTable: twinAcTable is an object keyed by gestational age; it is *)
(* modelled as the sequence of its [ga, row] entries in Object.keys order,   *)
(* a row as a function from its percentile keys to values.                   *)

EmptyRow == [p \in {} |-> NaN]

\* row[p] = val
rowSet(row, p, val) == [x \in DOMAIN row \cup {p} |-> IF x = p THEN val ELSE row[x]]

\* percentileHeaders.forEach((h, idx) => ...) from column idx on
RECURSIVE acRowFrom(_, _, _, _)
acRowFrom(row, header, cells, idx) ==
    IF idx > Len(header) THEN row
    ELSE LET p == parsePercentileHeader(header[idx])
             val == IF idx \in DOMAIN cells THEN parseFloat(cells[idx]) ELSE NaN
         IN  acRowFrom(IF ~isNaN(p) /\ ~isNaN(val) THEN rowSet(row, p, val) ELSE row,
                       header, cells, idx + 1)

\* an integer-like key (array index) is enumerated before every other key
IsIndexKey(ga) == ga.d = 1 /\ ga.n >= 0

\* position before which a new key is inserted in Object.keys order
RECURSIVE insertPos(_, _, _)
insertPos(table, ga, i) ==
    IF i > Len(table) THEN i
    ELSE IF IsIndexKey(ga) /\ (~IsIndexKey(table[i].ga) \/ table[i].ga.n > ga.n) THEN i
    ELSE insertPos(table, ga, i + 1)

\* twinAcTable[ga] = row
tableSet(table, ga, row) ==
    IF \E i \in DOMAIN table : table[i].ga = ga
    THEN [i \in DOMAIN table |-> IF table[i].ga = ga THEN [ga |-> ga, row |-> row] ELSE table[i]]
    ELSE LET pos == insertPos(table, ga, 1)
         IN  SubSeq(table, 1, pos - 1) \o <<[ga |-> ga, row |-> row]>>
                 \o SubSeq(table, pos, Len(table))

acPushLine(table, header, line) ==
    IF line.blank THEN table
    ELSE LET ga == parseFloat(line.ga)
         IN  IF isNaN(ga) THEN table
             ELSE tableSet(table, ga, acRowFrom(EmptyRow, header, line.cells, 1))

RECURSIVE acPushLines(_, _, _)
acPushLines(table, header, lines) ==
    IF lines = <<>> THEN table
    ELSE acPushLines(acPushLine(table, header, Head(lines)), header, Tail(lines))

loadTwinAcTable(table, csv) == acPushLines(table, csv.header, csv.lines)

\* twinAcTable[gaKey]
tableGet(table, ga) ==
    LET i == CHOOSE i \in DOMAIN table : table[i].ga = ga IN table[i].row

\* Object.keys(table).map(parseFloat)
tableKeys(table) == [i \in DOMAIN table |-> table[i].ga]

-----------------------------------------------------------------------------
(* The percentile engine *)

\* faulty variant: a row as near as the best one so far replaces it
RECURSIVE nearestScanLast(_, _, _, _, _)
nearestScanLast(arr, ga, i, bestIdx, bestDiff) ==
    IF i >= Len(arr) THEN bestIdx
    ELSE LET diff == MathAbs(Sub(At(arr, i), ga))
         IN  IF Le(diff, bestDiff)
             THEN nearestScanLast(arr, ga, i + 1, i, diff)
             ELSE nearestScanLast(arr, ga, i + 1, bestIdx, bestDiff)

\* the for loop of findNearestEfwWeekIndex / findNearestGA from index i on:
\* the 0-based index of the first element of arr nearest to ga
RECURSIVE nearestScan(_, _, _, _, _)
nearestScan(arr, ga, i, bestIdx, bestDiff) ==
    IF i >= Len(arr) THEN bestIdx
    ELSE LET diff == MathAbs(Sub(At(arr, i), ga))
         IN  IF Lt(diff, bestDiff)
             THEN nearestScan(arr, ga, i + 1, i, diff)
             ELSE nearestScan(arr, ga, i + 1, bestIdx, bestDiff)

findNearestEfwWeekIndex(t, gestationalWeeks) ==
    IF t = Null THEN -1
    ELSE nearestScan(t.weeks, gestationalWeeks, 1, 0,
                     MathAbs(Sub(At(t.weeks, 0), gestationalWeeks)))

\* The earlier variant (src/unnamed/part_000 303-321): a table without rows
\* has no nearest row
findNearestEfwWeekIndexEarly(t, gestationalWeeks) ==
    IF t = Null THEN -1
    ELSE IF Len(t.weeks) = 0 THEN -1
    ELSE nearestScan(t.weeks, gestationalWeeks, 1, 0,
                     MathAbs(Sub(At(t.weeks, 0), gestationalWeeks)))

\* the key returned by findNearestGA, Null for a table without keys
findNearestGA(table, ga) ==
    LET keys == tableKeys(table)
    IN  IF Len(keys) = 0 THEN Null
        ELSE At(keys, nearestScan(keys, ga, 1, 0, MathAbs(Sub(At(keys, 0), ga))))

\* pairs.sort((a, b) => a.v - b.v): stable, ascending by value
RECURSIVE insertByV(_, _)
insertByV(sorted, x) ==
    IF sorted = <<>> THEN <<x>>
    ELSE IF Gt(Sub(sorted[Len(sorted)].v, x.v), Num(0))
         THEN Append(insertByV(SubSeq(sorted, 1, Len(sorted) - 1), x), sorted[Len(sorted)])
         ELSE Append(sorted, x)

\* faulty variant: the pairs are left in column order
sortByVUnsorted(pairs) == pairs

RECURSIVE sortByV(_)
sortByV(pairs) ==
    IF pairs = <<>> THEN <<>>
    ELSE insertByV(sortByV(SubSeq(pairs, 1, Len(pairs) - 1)), pairs[Len(pairs)])

\* the (percentile, value) pairs of row rowIndex whose label and value are numbers
RECURSIVE efwPairsFrom(_, _, _)
efwPairsFrom(t, rowIndex, i) ==
    IF i >= Len(t.percentiles) THEN <<>>
    ELSE LET p == At(t.percentiles, i)
             v == At(At(t.data, i), rowIndex)
         IN  (IF ~isNaN(p) /\ ~isNaN(v) THEN <<[p |-> p, v |-> v]>> ELSE <<>>)
                 \o efwPairsFrom(t, rowIndex, i + 1)

efwPairs(t, rowIndex) == efwPairsFrom(t, rowIndex, 0)

\* faulty variant: the lower percentile is returned without interpolating
efwLerpLower(a, b, efw) == a.p

\* faulty variant: the fraction is inverted
efwLerpInverted(a, b, efw) ==
    LET frac == Div(Sub(b.v, a.v), Sub(efw, a.v))
    IN  Add(a.p, Mul(frac, Sub(b.p, a.p)))

\* faulty variant: the interpolation starts from the upper percentile
efwLerpFromUpper(a, b, efw) ==
    LET frac == Div(Sub(efw, a.v), Sub(b.v, a.v))
    IN  Add(b.p, Mul(frac, Sub(b.p, a.p)))

\* the percentile interpolated between the pairs a and b
efwLerp(a, b, efw) ==
    LET frac == Div(Sub(efw, a.v), Sub(b.v, a.v))
    IN  Add(a.p, Mul(frac, Sub(b.p, a.p)))

\* faulty variant: the loop without its exact-match test
RECURSIVE efwInterpolateFromNoExact(_, _, _)
efwInterpolateFromNoExact(pairs, efw, i) ==
    IF i >= Len(pairs) - 1 THEN NaN
    ELSE LET a == At(pairs, i)
             b == At(pairs, i + 1)
         IN  IF Gt(efw, a.v) /\ Lt(efw, b.v)
             THEN Add(a.p, Mul(Div(Sub(efw, a.v), Sub(b.v, a.v)), Sub(b.p, a.p)))
             ELSE efwInterpolateFromNoExact(pairs, efw, i + 1)

\* the for loop of calculateEFWPercentile from index i on
RECURSIVE efwInterpolateFrom(_, _, _)
efwInterpolateFrom(pairs, efw, i) ==
    IF i >= Len(pairs) - 1 THEN NaN
    ELSE LET a == At(pairs, i)
             b == At(pairs, i + 1)
         IN  IF StrictEq(efw, a.v) THEN a.p
             ELSE IF Gt(efw, a.v) /\ Lt(efw, b.v) THEN efwLerp(a, b, efw)
             ELSE efwInterpolateFrom(pairs, efw, i + 1)

\* faulty variant: the guard lets a measurement of zero through
efwNoInputBelowZero(t, efw) == t = Null \/ isNaN(efw) \/ Lt(efw, Num(0))

\* the guard of calculateEFWPercentile
efwNoInput(t, efw) == t = Null \/ isNaN(efw) \/ Le(efw, Num(0))

\* calculateEFWPercentile from the collected pairs on: the sort, the two
\* clamps and the loop
efwLookup(collected, efw) ==
    LET pairs == sortByV(collected)
    IN  IF Len(pairs) = 0 THEN NaN
        ELSE IF Le(efw, pairs[1].v) THEN pairs[1].p
        ELSE IF Ge(efw, pairs[Len(pairs)].v) THEN pairs[Len(pairs)].p
        ELSE efwInterpolateFrom(pairs, efw, 0)

calculateEFWPercentile(t, gestationalWeeks, efw) ==
    IF efwNoInput(t, efw) THEN NaN
    ELSE LET rowIndex == findNearestEfwWeekIndex(t, gestationalWeeks)
         IN  IF rowIndex = -1 THEN NaN
             ELSE efwLookup(efwPairs(t, rowIndex), efw)

\* The earlier variant of the function (src/unnamed/part_000 249-300): it also
\* rejects a table without rows and a NaN gestational age, and keeps the
\* columns whose label is NaN
RECURSIVE efwPairsFromEarly(_, _, _)
efwPairsFromEarly(t, rowIndex, i) ==
    IF i >= Len(t.percentiles) THEN <<>>
    ELSE LET v == At(At(t.data, i), rowIndex)
         IN  (IF ~isNaN(v) THEN <<[p |-> At(t.percentiles, i), v |-> v]>> ELSE <<>>)
                 \o efwPairsFromEarly(t, rowIndex, i + 1)

calculateEFWPercentileEarly(t, gestationalWeeks, efw) ==
    IF t = Null THEN NaN
    ELSE IF Len(t.weeks) = 0 THEN NaN
    ELSE IF isNaN(efw) \/ Le(efw, Num(0)) \/ isNaN(gestationalWeeks) THEN NaN
    ELSE LET rowIndex == findNearestEfwWeekIndex(t, gestationalWeeks)
         IN  IF rowIndex = -1 THEN NaN
             ELSE LET pairs == sortByV(efwPairsFromEarly(t, rowIndex, 0))
                  IN  IF Len(pairs) = 0 THEN NaN
                      ELSE IF Le(efw, pairs[1].v) THEN pairs[1].p
                      ELSE IF Ge(efw, pairs[Len(pairs)].v) THEN pairs[Len(pairs)].p
                      ELSE efwInterpolateFrom(pairs, efw, 0)

\* faulty variant: the labels are sorted in descending order
RECURSIVE sortDesc(_)
sortDesc(S) ==
    IF S = {} THEN <<>>
    ELSE LET m == CHOOSE m \in S : \A o \in S : Ge(m, o)
         IN  <<m>> \o sortDesc(S \ {m})

\* Object.keys(row).map(parseFloat).sort((a, b) => a - b)
RECURSIVE sortAsc(_)
sortAsc(S) ==
    IF S = {} THEN <<>>
    ELSE LET m == CHOOSE m \in S : \A o \in S : Le(m, o)
         IN  <<m>> \o sortAsc(S \ {m})

\* faulty variant: an exact match returns the next percentile
RECURSIVE acInterpolateFromNext(_, _, _, _)
acInterpolateFromNext(percentiles, values, ac, i) ==
    IF i >= Len(percentiles) - 1 THEN NaN
    ELSE LET v1 == At(values, i)
             v2 == At(values, i + 1)
         IN  IF StrictEq(ac, v1) THEN At(percentiles, i + 1)
             ELSE IF Gt(ac, v1) /\ Lt(ac, v2)
                  THEN LET frac == Div(Sub(ac, v1), Sub(v2, v1))
                       IN  Add(At(percentiles, i),
                               Mul(frac, Sub(At(percentiles, i + 1), At(percentiles, i))))
                  ELSE acInterpolateFromNext(percentiles, values, ac, i + 1)

\* faulty variant: the loop without its exact-match test
RECURSIVE acInterpolateFromNoExact(_, _, _, _)
acInterpolateFromNoExact(percentiles, values, ac, i) ==
    IF i >= Len(percentiles) - 1 THEN NaN
    ELSE LET v1 == At(values, i)
             v2 == At(values, i + 1)
         IN  IF Gt(ac, v1) /\ Lt(ac, v2)
             THEN LET frac == Div(Sub(ac, v1), Sub(v2, v1))
                  IN  Add(At(percentiles, i),
                          Mul(frac, Sub(At(percentiles, i + 1), At(percentiles, i))))
             ELSE acInterpolateFromNoExact(percentiles, values, ac, i + 1)

\* the for loop of calculateACPercentile from index i on
RECURSIVE acInterpolateFrom(_, _, _, _)
acInterpolateFrom(percentiles, values, ac, i) ==
    IF i >= Len(percentiles) - 1 THEN NaN
    ELSE LET v1 == At(values, i)
             v2 == At(values, i + 1)
         IN  IF StrictEq(ac, v1) THEN At(percentiles, i)
             ELSE IF Gt(ac, v1) /\ Lt(ac, v2)
                  THEN LET frac == Div(Sub(ac, v1), Sub(v2, v1))
                       IN  Add(At(percentiles, i),
                               Mul(frac, Sub(At(percentiles, i + 1), At(percentiles, i))))
                  ELSE acInterpolateFrom(percentiles, values, ac, i + 1)

\* !ac for a number
Falsy(x) == x.k # "num" \/ x.n = 0

\* calculateACPercentile from the selected row on: the sorted labels, their
\* values, the two clamps and the loop
acLookup(row, ac) ==
    LET percentiles == sortAsc(DOMAIN row)
        values == [i \in DOMAIN percentiles |-> row[percentiles[i]]]
    IN  IF Le(ac, At(values, 0)) THEN At(percentiles, 0)
        ELSE IF Ge(ac, At(values, Len(values) - 1))
             THEN At(percentiles, Len(values) - 1)
        ELSE acInterpolateFrom(percentiles, values, ac, 0)

calculateACPercentile(table, gestationalWeeks, ac) ==
    IF Falsy(ac) \/ isNaN(ac) THEN NaN
    ELSE LET gaKey == findNearestGA(table, gestationalWeeks)
         IN  IF gaKey = Null THEN NaN
             ELSE acLookup(tableGet(table, gaKey), ac)

\* faulty variant: the sort orders the percentile labels of the table itself
efwTableAfterCallSorted(t, gestationalWeeks, efw) ==
    IF efwNoInput(t, efw) THEN t
    ELSE LET pairs == sortByV(efwPairs(t, findNearestEfwWeekIndex(t, gestationalWeeks)))
         IN  IF Len(pairs) = Len(t.percentiles)
             THEN [t EXCEPT !.percentiles = [i \in DOMAIN pairs |-> pairs[i].p]]
             ELSE t

\* what a call of calculateEFWPercentile leaves in twinEfwCurves: percentiles is
\* a slice(), values a map() and pairs a new array, so sort() orders a copy
efwTableAfterCall(t, gestationalWeeks, efw) == t

\* what a call of calculateACPercentile leaves in twinAcTable: the sorted keys
\* are a new array
acTableAfterCall(table, gestationalWeeks, ac) == table

-----------------------------------------------------------------------------
(* The page: the shared gestational-age inputs, the two twin cards and the   *)
(* chart (script.js 96-298 and 400-458)                                      *)

Twins == {1, 2}
FieldIds == {"weeks", "days", "efw1", "efw2", "ac1", "ac2"}
ResultIds == {"efw1", "efw2", "ac1", "ac2", "discordancy"}
EfwField(twin) == IF twin = 1 THEN "efw1" ELSE "efw2"
AcField(twin) == IF twin = 1 THEN "ac1" ELSE "ac2"

\* the value of an input element: the empty string, numeric text or other text
EmptyCell == [k |-> "empty", n |-> 0, d |-> 1]

\* value || '0'
orZero(c) == IF c.k = "empty" THEN NumCell(0, 1) ELSE c

\* parseInt(s): the integer part of the number read, NaN when none is read
parseInt(c) ==
    IF c.k # "num" THEN NaN
    ELSE IF c.n >= 0 THEN Num(c.n \div c.d) ELSE Num(-((-c.n) \div c.d))

\* Math.round(x)
MathRound(x) == IF IsNum(x) THEN Num((2 * x.n + x.d) \div (2 * x.d)) ELSE NaN

MathMax(x, y) == IF ~IsNum(ToNumber(x)) \/ ~IsNum(ToNumber(y)) THEN NaN
                 ELSE IF Ge(x, y) THEN ToNumber(x) ELSE ToNumber(y)
MathMin(x, y) == IF ~IsNum(ToNumber(x)) \/ ~IsNum(ToNumber(y)) THEN NaN
                 ELSE IF Le(x, y) THEN ToNumber(x) ELSE ToNumber(y)

\* the text of a result element: empty, or x.toFixed(1) + '%' held in tenths
Blank == [k |-> "blank", tenths |-> 0]

\* the number of tenths in x.toFixed(1): the nearest, the larger of two nearest
toFixed1(x) ==
    IF x.n >= 0 THEN (2 * 10 * x.n + x.d) \div (2 * x.d)
    ELSE -((2 * 10 * (-x.n) + x.d) \div (2 * x.d))

Percent(x) == [k |-> "percent", tenths |-> toFixed1(x)]

\* faulty variant: the percentile is formatted without the isNaN test
resultTextUnguarded(pct) == Percent(pct)

\* isNaN(pct) ? '' : `${pct.toFixed(1)}%`
resultText(pct) == IF isNaN(pct) THEN Blank ELSE Percent(pct)

DISPLAYED_EFW_PERCENTILES == <<3, 10, 50, 90, 97>>

\* the percentile curves createChart builds: one per displayed percentile
\* that some label of the weight table rounds to
RECURSIVE percentileDatasetsFrom(_, _)
percentileDatasetsFrom(t, i) ==
    IF i > Len(DISPLAYED_EFW_PERCENTILES) THEN <<>>
    ELSE LET p == Num(DISPLAYED_EFW_PERCENTILES[i])
         IN  (IF \E idx \in DOMAIN t.percentiles :
                     ~isNaN(t.percentiles[idx]) /\ MathRound(t.percentiles[idx]) = p
              THEN <<[type |-> "line", id |-> p, x |-> NaN, y |-> NaN]>>
              ELSE <<>>) \o percentileDatasetsFrom(t, i + 1)

createChart(t) ==
    LET percentileDatasets == percentileDatasetsFrom(t, 1)
    IN  [datasets |-> percentileDatasets, curveCount |-> Len(percentileDatasets)]

\* the marker of a twin, if its weight and the gestational age can be plotted
markerOf(f, twin) ==
    LET weeks == parseFloat(f["weeks"])
        days == parseFloat(f["days"])
        gestationalAge == Add(weeks, IF isNaN(days) THEN Num(0) ELSE Div(days, Num(7)))
        efw == parseFloat(f[EfwField(twin)])
    IN  IF isNaN(efw) \/ Le(efw, Num(0)) THEN <<>>
        ELSE IF isNaN(gestationalAge) \/ Lt(gestationalAge, Num(14))
                   \/ Gt(gestationalAge, Num(41)) THEN <<>>
        ELSE <<[type |-> "scatter", id |-> Num(twin), x |-> gestationalAge, y |-> efw]>>

updateChart(chart, f) ==
    IF chart = Null THEN chart
    ELSE LET N == chart.curveCount
             kept == IF N < Len(chart.datasets) THEN N ELSE Len(chart.datasets)
         IN  [chart EXCEPT !.datasets =
                 SubSeq(chart.datasets, 1, kept) \o markerOf(f, 1) \o markerOf(f, 2)]

\* const totalGA = weeks + days / 7
totalGAOf(f) ==
    Add(parseFloat(orZero(f["weeks"])), Div(parseFloat(orZero(f["days"])), Num(7)))

\* efwInput.value ? parseFloat(efwInput.value) : 0
twinValue(c) == IF c.k = "empty" THEN Num(0) ELSE parseFloat(c)

\* efwTwin1 / efwTwin2: the weight of the twin if positive, else null
efwTwin(f, twin) ==
    LET efw == twinValue(f[EfwField(twin)])
    IN  IF Gt(efw, Num(0)) THEN efw ELSE Null

\* faulty variant: the difference is taken relative to the smaller weight
discordancyTextOverMin(efwTwin1, efwTwin2) ==
    IF Gt(efwTwin1, Num(0)) /\ Gt(efwTwin2, Num(0))
    THEN LET diff == MathAbs(Sub(efwTwin1, efwTwin2))
             maxEfw == MathMin(efwTwin1, efwTwin2)
         IN  Percent(Mul(Div(diff, maxEfw), Num(100)))
    ELSE Blank

\* the text written to discordancyValue
discordancyText(efwTwin1, efwTwin2) ==
    IF Gt(efwTwin1, Num(0)) /\ Gt(efwTwin2, Num(0))
    THEN LET diff == MathAbs(Sub(efwTwin1, efwTwin2))
             maxEfw == MathMax(efwTwin1, efwTwin2)
         IN  Percent(Mul(Div(diff, maxEfw), Num(100)))
    ELSE Blank

\* the discordancy text of the per-row variant (script.js 716-767):
\* efw = parseFloat(value || '0'), kept if > 0, and if (efwTwin1 && efwTwin2)
discordancyTextPerRow(f) ==
    LET e(twin) == LET efw == parseFloat(orZero(f[EfwField(twin)]))
                   IN  IF Gt(efw, Num(0)) THEN efw ELSE Null
    IN  IF ~Falsy(e(1)) /\ ~Falsy(e(2))
        THEN LET diff == MathAbs(Sub(e(1), e(2)))
                 maxEfw == MathMax(e(1), e(2))
             IN  Percent(Mul(Div(diff, maxEfw), Num(100)))
        ELSE Blank

\* the result elements after updateResults
resultsAfterUpdate(f, t, table) ==
    LET totalGA == totalGAOf(f)
        efwText(twin) ==
            LET efw == twinValue(f[EfwField(twin)])
            IN  IF Gt(efw, Num(0)) /\ Ge(totalGA, Num(14))
                THEN resultText(calculateEFWPercentile(t, totalGA, efw))
                ELSE Blank
        acText(twin) ==
            LET ac == twinValue(f[AcField(twin)])
            IN  IF Gt(ac, Num(0)) /\ Ge(totalGA, Num(14))
                THEN resultText(calculateACPercentile(table, totalGA, ac))
                ELSE Blank
    IN  [r \in ResultIds |->
            CASE r = "efw1" -> efwText(1)
              [] r = "efw2" -> efwText(2)
              [] r = "ac1" -> acText(1)
              [] r = "ac2" -> acText(2)
              [] OTHER -> discordancyText(efwTwin(f, 1), efwTwin(f, 2))]

\* the result elements after updateResults of the per-row variant
\* (script.js 716-753): a row is computed when its gestational age is above 0
resultsAfterUpdatePerRow(f, t, table) ==
    LET totalGA == totalGAOf(f)
        efwText(twin) ==
            LET efw == parseFloat(orZero(f[EfwField(twin)]))
            IN  IF Gt(efw, Num(0)) /\ Gt(totalGA, Num(0))
                THEN resultText(calculateEFWPercentile(t, totalGA, efw))
                ELSE Blank
        acText(twin) ==
            LET ac == parseFloat(orZero(f[AcField(twin)]))
            IN  IF Gt(ac, Num(0)) /\ Gt(totalGA, Num(0))
                THEN resultText(calculateACPercentile(table, totalGA, ac))
                ELSE Blank
    IN  [r \in ResultIds |->
            CASE r = "efw1" -> efwText(1)
              [] r = "efw2" -> efwText(2)
              [] r = "ac1" -> acText(1)
              [] r = "ac2" -> acText(2)
              [] OTHER -> discordancyTextPerRow(f)]

\* enforceWeeksLimit / enforceDaysLimit: the value of the element after the call
enforceLimit(c, lo, hi) ==
    LET val == parseInt(c)
    IN  IF isNaN(val) THEN c
        ELSE LET v == MathMax(Num(lo), MathMin(Num(hi), val)) IN NumCell(v.n, v.d)

enforceWeeksLimit(c) == enforceLimit(c, 14, 41)
enforceDaysLimit(c) == enforceLimit(c, 0, 6)

-----------------------------------------------------------------------------
(* Bounded inputs: the files the loaders read and the arguments of the calls *)

Cells == {NumCell(2 * i, 1) : i \in 1..MaxCell} \cup {TextCell}

StdHeader == <<QLabel(1, 10), QLabel(1, 2), QLabel(9, 10)>>

Headers == { StdHeader,
             <<QLabel(1, 10), QLabel(3, 10), QLabel(1, 2), QLabel(9, 10)>>,
             <<QLabel(1, 2), QLabel(1, 10), QLabel(9, 10)>>,
             <<QLabel(1, 10), BadLabel, BareLabel(90)>>,
             <<BareLabel(50), QLabel(1, 2), QLabel(9, 10)>> }

\* a single data line with any cells
FreeLines(h) == {Line(NumCell(20, 1), c) : c \in [DOMAIN h -> Cells]}

\* the lines of the files with several data lines
BaseLines == { Line(NumCell(20, 1), <<NumCell(2, 1), NumCell(4, 1), NumCell(6, 1)>>),
               Line(NumCell(22, 1), <<NumCell(4, 1), NumCell(6, 1), NumCell(6, 1)>>),
               Line(NumCell(43, 2), <<NumCell(6, 1), TextCell, NumCell(2, 1)>>) }

RECURSIVE SeqsOfLen(_, _)
SeqsOfLen(S, n) ==
    IF n = 0 THEN {<<>>}
    ELSE {Append(q, x) : q \in SeqsOfLen(S, n - 1), x \in S}

LineSeqs(h) ==
    {<<>>} \cup {<<l>> : l \in FreeLines(h)}
           \cup UNION {SeqsOfLen(BaseLines, n) : n \in 2..MaxRows}

EmptyCsv == [header |-> <<>>, lines |-> <<>>]

DefaultCsv == [header |-> StdHeader,
               lines |-> <<Line(NumCell(20, 1), <<NumCell(2, 1), NumCell(4, 1), NumCell(6, 1)>>),
                           Line(NumCell(22, 1), <<NumCell(4, 1), NumCell(6, 1), NumCell(6, 1)>>)>>]

Datasets ==
    {EmptyCsv} \cup UNION {{[header |-> h, lines |-> ls] : ls \in LineSeqs(h)} : h \in Headers}

Measurements == {Num(i) : i \in (-1)..(2 * MaxCell + 1)} \cup {NaN}

CallGAs == {Num(21), Num(23), NaN}

NoCall == [fn |-> "none", ga |-> NaN, m |-> NaN, res |-> NaN]

-----------------------------------------------------------------------------
(* The engine under arbitrary callers *)

Init ==
    /\ efwCsv \in Datasets
    /\ acCsv \in Datasets
    /\ efwCsv = DefaultCsv \/ acCsv = DefaultCsv
    /\ twinEfwCurves = Null
    /\ twinAcTable = <<>>
    /\ loaded = {}
    /\ call = NoCall
    /\ growthChart = Null
    /\ fields = [f \in FieldIds |-> EmptyCell]
    /\ results = [r \in ResultIds |-> Blank]
    /\ handlersAttached = FALSE
    /\ failed = {}
    /\ errorLogged = FALSE

LoadTwinEfwCurves ==
    /\ call = NoCall
    /\ "efw" \notin loaded \cup failed
    /\ twinEfwCurves' = loadTwinEfwCurves(efwCsv)
    /\ IF efwLoadThrows(efwCsv)
       THEN failed' = failed \cup {"efw"} /\ loaded' = loaded
       ELSE loaded' = loaded \cup {"efw"} /\ failed' = failed
    /\ UNCHANGED <<efwCsv, acCsv, twinAcTable, call, errorLogged>>
    /\ UNCHANGED uiVars

LoadTwinAcTable ==
    /\ call = NoCall
    /\ "ac" \notin loaded \cup failed
    /\ twinAcTable' = loadTwinAcTable(twinAcTable, acCsv)
    /\ loaded' = loaded \cup {"ac"}
    /\ UNCHANGED <<efwCsv, acCsv, twinEfwCurves, call>>
    /\ UNCHANGED uiVars
    /\ UNCHANGED loadVars

CallEFW(ga, m) ==
    /\ call = NoCall
    /\ call' = [fn |-> "calculateEFWPercentile", ga |-> ga, m |-> m,
                res |-> calculateEFWPercentile(twinEfwCurves, ga, m)]
    /\ twinEfwCurves' = efwTableAfterCall(twinEfwCurves, ga, m)
    /\ UNCHANGED <<efwCsv, acCsv, twinAcTable, loaded>>
    /\ UNCHANGED uiVars
    /\ UNCHANGED loadVars

CallAC(ga, m) ==
    /\ call = NoCall
    /\ call' = [fn |-> "calculateACPercentile", ga |-> ga, m |-> m,
                res |-> calculateACPercentile(twinAcTable, ga, m)]
    /\ twinAcTable' = acTableAfterCall(twinAcTable, ga, m)
    /\ UNCHANGED <<efwCsv, acCsv, twinEfwCurves, loaded>>
    /\ UNCHANGED uiVars
    /\ UNCHANGED loadVars

CallFindNearestEfwWeekIndex(ga) ==
    /\ call = NoCall
    /\ call' = [fn |-> "findNearestEfwWeekIndex", ga |-> ga, m |-> NaN,
                res |-> Num(findNearestEfwWeekIndex(twinEfwCurves, ga))]
    /\ UNCHANGED <<efwCsv, acCsv, twinEfwCurves, twinAcTable, loaded>>
    /\ UNCHANGED uiVars
    /\ UNCHANGED loadVars

CallFindNearestGA(ga) ==
    /\ call = NoCall
    /\ call' = [fn |-> "findNearestGA", ga |-> ga, m |-> NaN,
                res |-> findNearestGA(twinAcTable, ga)]
    /\ UNCHANGED <<efwCsv, acCsv, twinEfwCurves, twinAcTable, loaded>>
    /\ UNCHANGED uiVars
    /\ UNCHANGED loadVars

\* the caller has read the result; JavaScript runs one call to completion
\* before anything else runs
Return ==
    /\ call # NoCall
    /\ call' = NoCall
    /\ UNCHANGED <<efwCsv, acCsv, twinEfwCurves, twinAcTable, loaded>>
    /\ UNCHANGED uiVars
    /\ UNCHANGED loadVars

Next ==
    \/ LoadTwinEfwCurves
    \/ LoadTwinAcTable
    \/ \E ga \in CallGAs, m \in Measurements : CallEFW(ga, m)
    \/ \E ga \in CallGAs, m \in Measurements : CallAC(ga, m)
    \/ \E ga \in CallGAs : CallFindNearestEfwWeekIndex(ga)
    \/ \E ga \in CallGAs : CallFindNearestGA(ga)
    \/ Return

Spec == Init /\ [][Next]_vars

-----------------------------------------------------------------------------
(* The page from startup on: the loads, the end of loadData and the input   *)
(* and change events of the user                                            *)

UiEfwCsv == [header |-> StdHeader,
             lines |-> <<Line(NumCell(20, 1), <<NumCell(300, 1), NumCell(350, 1), NumCell(450, 1)>>),
                         Line(NumCell(22, 1), <<NumCell(400, 1), NumCell(500, 1), NumCell(600, 1)>>)>>]

UiAcCsv == [header |-> StdHeader,
            lines |-> <<Line(NumCell(20, 1), <<NumCell(150, 1), NumCell(160, 1), NumCell(170, 1)>>),
                        Line(NumCell(22, 1), <<NumCell(170, 1), NumCell(180, 1), NumCell(190, 1)>>)>>]

FieldInputs(f) ==
    CASE f = "weeks" -> {EmptyCell, TextCell, NumCell(13, 1), NumCell(20, 1), NumCell(45, 1)}
      [] f = "days" -> {EmptyCell, NumCell(3, 1), NumCell(9, 1)}
      [] f \in {"efw1", "efw2"} ->
            {EmptyCell, TextCell, NumCell(-5, 1), NumCell(0, 1),
             NumCell(400, 1), NumCell(800, 1), NumCell(1000, 1)}
      [] OTHER -> {EmptyCell, NumCell(0, 1), NumCell(160, 1)}

InitUI ==
    /\ efwCsv \in {UiEfwCsv, EmptyCsv}
    /\ acCsv = UiAcCsv
    /\ twinEfwCurves = Null
    /\ twinAcTable = <<>>
    /\ loaded = {}
    /\ call = NoCall
    /\ growthChart = Null
    /\ fields = [f \in FieldIds |-> EmptyCell]
    /\ results = [r \in ResultIds |-> Blank]
    /\ handlersAttached = FALSE
    /\ failed = {}
    /\ errorLogged = FALSE

\* faulty variant: the startup goes on as soon as the weight table is loaded
FinishLoadDataAfterEfw ==
    /\ "efw" \in loaded
    /\ ~handlersAttached
    /\ growthChart' = createChart(twinEfwCurves)
    /\ handlersAttached' = TRUE
    /\ results' = resultsAfterUpdate(fields, twinEfwCurves, twinAcTable)
    /\ UNCHANGED <<engineVars, loadVars, fields>>

\* the rest of loadData once both loads are done:
\* createChart(); attachInputHandlers(); updateResults(false)
FinishLoadData ==
    /\ loaded = {"efw", "ac"}
    /\ ~handlersAttached
    /\ growthChart' = createChart(twinEfwCurves)
    /\ handlersAttached' = TRUE
    /\ results' = resultsAfterUpdate(fields, twinEfwCurves, twinAcTable)
    /\ UNCHANGED <<engineVars, loadVars, fields>>

\* the inputs whose handlers pass shouldUpdateChart = true
UpdatesChart(f) == f \in {"weeks", "days", "efw1", "efw2"}

\* updateResults(shouldUpdateChart) on the elements' values f
UpdateResults(f, shouldUpdateChart) ==
    /\ results' = resultsAfterUpdate(f, twinEfwCurves, twinAcTable)
    /\ growthChart' = IF shouldUpdateChart THEN updateChart(growthChart, f) ELSE growthChart

\* the user changes the text of an input: its 'input' handler runs, if attached
InputEvent(f, v) ==
    /\ v # fields[f]
    /\ fields' = [fields EXCEPT ![f] = v]
    /\ IF handlersAttached
       THEN UpdateResults(fields', UpdatesChart(f))
       ELSE UNCHANGED <<results, growthChart>>
    /\ UNCHANGED <<engineVars, loadVars, handlersAttached>>

\* the user commits an input: its 'change' handler runs
ChangeEvent(f) ==
    /\ handlersAttached
    /\ fields' = [fields EXCEPT ![f] =
                     IF f = "weeks" THEN enforceWeeksLimit(@)
                     ELSE IF f = "days" THEN enforceDaysLimit(@)
                     ELSE @]
    /\ UpdateResults(fields', UpdatesChart(f))
    /\ UNCHANGED <<engineVars, loadVars, handlersAttached>>

NextUI ==
    \/ LoadTwinEfwCurves
    \/ LoadTwinAcTable
    \/ FinishLoadData
    \/ \E f \in FieldIds : \E v \in FieldInputs(f) : InputEvent(f, v)
    \/ \E f \in FieldIds : ChangeEvent(f)

SpecUI == InitUI /\ [][NextUI]_vars

-----------------------------------------------------------------------------
(* The startup on well-formed and malformed files, with fetches that fail:   *)
(* loadData, its catch, and the handlers of the page                         *)

\* a line of white space only
BlankLine == [blank |-> TRUE, ga |-> TextCell, cells |-> <<>>]

LoadLines ==
    { Line(NumCell(20, 1), <<NumCell(300, 1), NumCell(350, 1), NumCell(450, 1)>>),
      Line(NumCell(22, 1), <<NumCell(400, 1), NumCell(500, 1), NumCell(600, 1)>>),
      Line(NumCell(22, 1), <<NumCell(400, 1), NumCell(500, 1)>>),
      Line(NumCell(22, 1), <<NumCell(400, 1), NumCell(500, 1), NumCell(600, 1), NumCell(700, 1)>>),
      Line(NumCell(22, 1), <<NumCell(400, 1), TextCell, NumCell(600, 1)>>),
      Line(TextCell, <<NumCell(400, 1), NumCell(500, 1), NumCell(600, 1)>>),
      BlankLine }

LoadHeaders == {StdHeader, <<QLabel(1, 10), BadLabel, BareLabel(90)>>}

\* text.trim() leaves no blank line at the start or at the end of the text
LoadLineSeqs ==
    {ls \in UNION {SeqsOfLen(LoadLines, n) : n \in 0..MaxRows} :
        ls # <<>> => (ls[1] # BlankLine /\ ls[Len(ls)] # BlankLine)}

\* the body of an error page: fetch resolves for a 404 response, and
\* r.text() is the page, whose lines hold no number
NotFoundPage == [header |-> <<>>, lines |-> <<Line(TextCell, <<>>)>>]

LoadDatasets ==
    {EmptyCsv, NotFoundPage} \cup {[header |-> h, lines |-> ls] : h \in LoadHeaders, ls \in LoadLineSeqs}

LoadFieldIds == {"weeks", "efw1", "ac1"}

LoadFieldInputs(f) ==
    CASE f = "weeks" -> {EmptyCell, NumCell(13, 1), NumCell(20, 1)}
      [] f = "efw1" -> {EmptyCell, NumCell(-5, 1), NumCell(400, 1)}
      [] OTHER -> {EmptyCell, NumCell(0, 1), NumCell(160, 1)}

InitLoad ==
    /\ efwCsv \in LoadDatasets \cup {UiEfwCsv}
    /\ acCsv \in LoadDatasets \cup {UiAcCsv}
    /\ efwCsv = UiEfwCsv \/ acCsv = UiAcCsv
    /\ twinEfwCurves = Null
    /\ twinAcTable = <<>>
    /\ loaded = {}
    /\ call = NoCall
    /\ growthChart = Null
    /\ fields = [f \in FieldIds |-> EmptyCell]
    /\ results = [r \in ResultIds |-> Blank]
    /\ handlersAttached = FALSE
    /\ failed = {}
    /\ errorLogged = FALSE

\* the fetch of a loader rejects (the network is unreachable): the promise of
\* the loader is rejected before it touches its table
FetchFails(w) ==
    /\ w \notin loaded \cup failed
    /\ failed' = failed \cup {w}
    /\ UNCHANGED <<engineVars, uiVars, errorLogged>>

\* Promise.all rejects with the first rejection: loadData ends at its await,
\* and the catch of the DOMContentLoaded handler logs the error
CatchLoadError ==
    /\ failed # {}
    /\ ~errorLogged
    /\ errorLogged' = TRUE
    /\ UNCHANGED <<engineVars, uiVars, failed>>

NextLoad ==
    \/ LoadTwinEfwCurves
    \/ LoadTwinAcTable
    \/ \E w \in {"efw", "ac"} : FetchFails(w)
    \/ CatchLoadError
    \/ FinishLoadData
    \/ \E f \in LoadFieldIds : \E v \in LoadFieldInputs(f) : InputEvent(f, v)
    \/ ChangeEvent("weeks")

SpecLoad == InitLoad /\ [][NextLoad]_vars

-----------------------------------------------------------------------------
(* The per-row variant of the page (script.js 466-953): every twin row has   *)
(* its own gestational age inputs                                            *)

PerRowFieldIds == {"weeks1", "days1", "efw1", "ac1", "weeks2", "days2", "efw2", "ac2"}

WeeksField(twin) == IF twin = 1 THEN "weeks1" ELSE "weeks2"
DaysField(twin) == IF twin = 1 THEN "days1" ELSE "days2"

\* the inputs of the row of a twin, under the ids of the shared page
rowFields(f, twin) ==
    [x \in FieldIds |->
        IF x = "weeks" THEN f[WeeksField(twin)]
        ELSE IF x = "days" THEN f[DaysField(twin)]
        ELSE f[x]]

\* the marker of a twin in the per-row variant (script.js 883-901): the weeks
\* of its row are tested against 14 and 41, not the gestational age
markerOfPerRow(f, twin) ==
    LET weeks == parseFloat(f[WeeksField(twin)])
        days == parseFloat(f[DaysField(twin)])
        efw == parseFloat(f[EfwField(twin)])
        ga == Add(weeks, IF isNaN(days) THEN Num(0) ELSE Div(days, Num(7)))
    IN  IF isNaN(weeks) \/ Lt(weeks, Num(14)) \/ Gt(weeks, Num(41)) THEN <<>>
        ELSE IF isNaN(efw) \/ Le(efw, Num(0)) THEN <<>>
        ELSE <<[type |-> "scatter", id |-> Num(twin), x |-> ga, y |-> efw]>>

\* updateChart of the per-row variant (script.js 876-948): the datasets are
\* cut back to the curves only if (N && datasets.length > N)
updateChartPerRow(chart, f) ==
    IF chart = Null THEN chart
    ELSE LET N == chart.curveCount
             kept == IF N # 0 /\ Len(chart.datasets) > N
                     THEN SubSeq(chart.datasets, 1, N)
                     ELSE chart.datasets
         IN  [chart EXCEPT !.datasets =
                 kept \o markerOfPerRow(f, 1) \o markerOfPerRow(f, 2)]

\* the result elements after updateResults of the per-row variant, each row
\* with its own gestational age
resultsAfterUpdateRows(f, t, table) ==
    [r \in ResultIds |->
        resultsAfterUpdatePerRow(rowFields(f, IF r \in {"efw2", "ac2"} THEN 2 ELSE 1),
                                 t, table)[r]]

\* a weight dataset none of whose labels is a displayed percentile
NoCurveCsv == [header |-> <<QLabel(1, 4), QLabel(3, 4)>>,
               lines |-> <<Line(NumCell(20, 1), <<NumCell(300, 1), NumCell(450, 1)>>)>>]

\* the inputs that are edited, and the texts typed into them
PerRowEditedIds == {"weeks1", "efw1", "ac1", "weeks2", "efw2"}

PerRowFieldInputs(f) ==
    IF f = "weeks1" THEN {EmptyCell, NumCell(13, 1), NumCell(20, 1)}
    ELSE IF f = "weeks2" THEN {EmptyCell, NumCell(20, 1)}
    ELSE IF f \in {"efw1", "efw2"} THEN {EmptyCell, NumCell(400, 1)}
    ELSE {EmptyCell, NumCell(160, 1)}

InitPerRow ==
    /\ efwCsv \in {UiEfwCsv, NoCurveCsv, EmptyCsv}
    /\ acCsv = UiAcCsv
    /\ twinEfwCurves = Null
    /\ twinAcTable = <<>>
    /\ loaded = {}
    /\ call = NoCall
    /\ growthChart = Null
    /\ fields = [f \in PerRowFieldIds |-> EmptyCell]
    /\ results = [r \in ResultIds |-> Blank]
    /\ handlersAttached = FALSE
    /\ failed = {}
    /\ errorLogged = FALSE

\* createChart(); attachInputHandlers(); updateResults(false)  (script.js 482-484)
PerRowFinishLoadData ==
    /\ loaded = {"efw", "ac"}
    /\ ~handlersAttached
    /\ growthChart' = createChart(twinEfwCurves)
    /\ handlersAttached' = TRUE
    /\ results' = resultsAfterUpdateRows(fields, twinEfwCurves, twinAcTable)
    /\ UNCHANGED <<engineVars, loadVars, fields>>

\* the inputs of the per-row variant whose handlers pass shouldUpdateChart = true
PerRowUpdatesChart(f) == f \notin {"ac1", "ac2"}

PerRowUpdateResults(f, shouldUpdateChart) ==
    /\ results' = resultsAfterUpdateRows(f, twinEfwCurves, twinAcTable)
    /\ growthChart' = IF shouldUpdateChart THEN updateChartPerRow(growthChart, f)
                      ELSE growthChart

\* no further edit is explored once MaxMarkers markers are on the chart
MarkersBelowBound ==
    growthChart # Null => Len(growthChart.datasets) < growthChart.curveCount + MaxMarkers

\* the 'input' handler of the per-row variant (script.js 670-683)
PerRowInputEvent(f, v) ==
    /\ MarkersBelowBound
    /\ v # fields[f]
    /\ fields' = [fields EXCEPT ![f] = v]
    /\ IF handlersAttached
       THEN PerRowUpdateResults(fields', PerRowUpdatesChart(f))
       ELSE UNCHANGED <<results, growthChart>>
    /\ UNCHANGED <<engineVars, loadVars, handlersAttached>>

\* the 'change' handler of the per-row variant (script.js 685-702)
PerRowChangeEvent(f) ==
    /\ MarkersBelowBound
    /\ handlersAttached
    /\ fields' = [fields EXCEPT ![f] =
                     IF f \in {"weeks1", "weeks2"} THEN enforceWeeksLimit(@)
                     ELSE IF f \in {"days1", "days2"} THEN enforceDaysLimit(@)
                     ELSE @]
    /\ PerRowUpdateResults(fields', PerRowUpdatesChart(f))
    /\ UNCHANGED <<engineVars, loadVars, handlersAttached>>

NextPerRow ==
    \/ LoadTwinEfwCurves
    \/ LoadTwinAcTable
    \/ PerRowFinishLoadData
    \/ \E f \in PerRowEditedIds : \E v \in PerRowFieldInputs(f) : PerRowInputEvent(f, v)
    \/ \E f \in PerRowEditedIds : PerRowChangeEvent(f)

SpecPerRow == InitPerRow /\ [][NextPerRow]_vars

-----------------------------------------------------------------------------
(* Vocabulary of the properties: the row a call selects, as sets of          *)
(* (percentile, value) pairs read from the tables                            *)

IsEfwCall == call.fn = "calculateEFWPercentile"
IsAcCall == call.fn = "calculateACPercentile"

Positive(x) == IsNum(x) /\ x.n > 0

\* the valid (percentile, value) pairs of the row of the weight table nearest to ga
EfwRowPairs(t, ga) ==
    LET r == findNearestEfwWeekIndex(t, ga)
    IN  {[p |-> t.percentiles[i], v |-> At(t.data[i], r)] :
            i \in {j \in DOMAIN t.percentiles :
                      IsNum(t.percentiles[j]) /\ IsNum(At(t.data[j], r))}}

\* the entries of the row of the circumference table nearest to ga
AcRowPairs(table, ga) ==
    LET row == tableGet(table, findNearestGA(table, ga))
    IN  {[p |-> p, v |-> row[p]] : p \in DOMAIN row}

\* the pairs of the row that the last percentile call selected
CallPairs ==
    IF IsEfwCall /\ twinEfwCurves # Null THEN EfwRowPairs(twinEfwCurves, call.ga)
    ELSE IF IsAcCall /\ twinAcTable # <<>> THEN AcRowPairs(twinAcTable, call.ga)
    ELSE {}

MinPercentile(P) == CHOOSE x \in {a.p : a \in P} : \A a \in P : Le(x, a.p)
MaxPercentile(P) == CHOOSE x \in {a.p : a \in P} : \A a \in P : Ge(x, a.p)
AtOrBelowMin(P, m) == \A a \in P : Le(m, a.v)
AtOrAboveMax(P, m) == \A a \in P : Ge(m, a.v)

\* the values of the row increase strictly with the percentile label
StrictlyIncreasing(P) == \A a, b \in P : Lt(a.p, b.p) => Lt(a.v, b.v)

-----------------------------------------------------------------------------
(* C1 as stated: a positive measurement at or below the smallest value of   *)
(* the selected row gets the smallest percentile label of the row, one at   *)
(* or above the largest value gets the largest label, for every row.        *)
C1_ClampAnyRow ==
    (Positive(call.m) /\ CallPairs # {}) =>
        /\ AtOrBelowMin(CallPairs, call.m) => call.res = MinPercentile(CallPairs)
        /\ AtOrAboveMax(CallPairs, call.m) => call.res = MaxPercentile(CallPairs)

(* C1 amended: the clamp to the smallest and to the largest percentile      *)
(* label holds for every selected row whose values increase strictly with   *)
(* the percentile label.                                                    *)
C1_ClampIncreasingRow ==
    (Positive(call.m) /\ CallPairs # {} /\ StrictlyIncreasing(CallPairs)) =>
        /\ AtOrBelowMin(CallPairs, call.m) => call.res = MinPercentile(CallPairs)
        /\ AtOrAboveMax(CallPairs, call.m) => call.res = MaxPercentile(CallPairs)

C1_Witness ==
    /\ IsAcCall /\ Positive(call.m)
    /\ Cardinality(CallPairs) >= 2 /\ StrictlyIncreasing(CallPairs)
    /\ AtOrAboveMax(CallPairs, call.m)
    /\ \E a \in CallPairs : Lt(a.v, call.m)
    /\ call.res = MaxPercentile(CallPairs)

(* C2: a number returned by calculateEFWPercentile, in the current and in   *)
(* the earlier variant, lies between the smallest and the largest           *)
(* percentile label of the valid columns of the selected row.               *)
C2_WithinLabelRange ==
    /\ (IsEfwCall /\ IsNum(call.res)) =>
          /\ CallPairs # {}
          /\ Le(MinPercentile(CallPairs), call.res)
          /\ Le(call.res, MaxPercentile(CallPairs))
    /\ IsEfwCall =>
          LET early == calculateEFWPercentileEarly(twinEfwCurves, call.ga, call.m)
          IN  IsNum(early) =>
                 /\ CallPairs # {}
                 /\ Le(MinPercentile(CallPairs), early)
                 /\ Le(early, MaxPercentile(CallPairs))

C2_Witness ==
    /\ IsEfwCall /\ IsNum(call.res)
    /\ \A a \in CallPairs : call.res # a.p
    /\ Lt(MinPercentile(CallPairs), call.res)
    /\ Lt(call.res, MaxPercentile(CallPairs))

(* C3: with a loaded weight table whose selected row has a valid pair,      *)
(* calculateEFWPercentile returns a number for every positive measurement.  *)
C3_EfwTotal ==
    (IsEfwCall /\ Positive(call.m) /\ CallPairs # {}) => IsNum(call.res)

\* two columns hold the same value and the measurement is strictly inside the row's range
C3_Witness ==
    /\ IsEfwCall /\ Positive(call.m) /\ IsNum(call.res)
    /\ \E a, b \in CallPairs : a # b /\ a.v = b.v
    /\ ~AtOrBelowMin(CallPairs, call.m)
    /\ ~AtOrAboveMax(CallPairs, call.m)

\* the result of the last percentile call, had the measurement been m2
ResultFor(m2) ==
    IF IsEfwCall THEN calculateEFWPercentile(twinEfwCurves, call.ga, m2)
    ELSE calculateACPercentile(twinAcTable, call.ga, m2)

\* the result of the last call is at most the result for every larger measurement
CallMonotone ==
    \A m2 \in Measurements :
        (Le(call.m, m2) /\ IsNum(call.res) /\ IsNum(ResultFor(m2))) =>
            Le(call.res, ResultFor(m2))

(* C4 as stated: for every table and gestational age the percentile         *)
(* returned by calculateEFWPercentile and by calculateACPercentile is       *)
(* non-decreasing in the positive measurement.                              *)
C4_MonotoneAnyRow ==
    ((IsEfwCall \/ IsAcCall) /\ Positive(call.m)) => CallMonotone

(* C4 amended: calculateACPercentile is non-decreasing in the positive      *)
(* measurement for every row, calculateEFWPercentile for every selected     *)
(* row whose values increase strictly with the percentile label.            *)
C4_MonotoneIncreasingRow ==
    /\ (IsAcCall /\ Positive(call.m)) => CallMonotone
    /\ (IsEfwCall /\ Positive(call.m) /\ StrictlyIncreasing(CallPairs)) => CallMonotone

\* an interpolated result strictly below the result of a larger measurement
C4_Witness ==
    /\ IsEfwCall /\ Positive(call.m)
    /\ Cardinality(CallPairs) >= 2 /\ StrictlyIncreasing(CallPairs)
    /\ IsNum(call.res) /\ \A a \in CallPairs : call.res # a.p
    /\ \E m2 \in Measurements : Lt(call.m, m2) /\ Lt(call.res, ResultFor(m2))

(* C5 as stated: a measurement equal to a value tabulated in the selected   *)
(* row gets exactly the percentile label under which that value is          *)
(* tabulated.                                                               *)
C5_ExactAnyRow ==
    ((IsEfwCall \/ IsAcCall) /\ Positive(call.m)) =>
        \A a \in CallPairs : a.v = call.m => call.res = a.p

(* C5 amended: calculateEFWPercentile returns the label of the tabulated    *)
(* value when every valid column of the selected row holding that value     *)
(* carries that same label; calculateACPercentile returns it when the       *)
(* values of the selected row increase strictly with the percentile.        *)
C5_ExactUnambiguous ==
    /\ (IsEfwCall /\ Positive(call.m)) =>
          \A a \in CallPairs :
             (a.v = call.m /\ \A b \in CallPairs : b.v = call.m => b.p = a.p)
                => call.res = a.p
    /\ (IsAcCall /\ Positive(call.m) /\ StrictlyIncreasing(CallPairs)) =>
          \A a \in CallPairs : a.v = call.m => call.res = a.p

\* the measurement is the middle one of three tabulated values
C5_Witness ==
    /\ IsAcCall /\ Positive(call.m) /\ StrictlyIncreasing(CallPairs)
    /\ \E a, b, c \in CallPairs :
          /\ Lt(a.v, b.v) /\ Lt(b.v, c.v)
          /\ b.v = call.m /\ call.res = b.p

(* C6: calculateEFWPercentile, in the current and in the earlier variant,   *)
(* returns NaN when the weight table is unset or has no rows, or the        *)
(* measurement is <= 0 or NaN.                                              *)
C6_EfwNoResult ==
    (IsEfwCall /\ (\/ twinEfwCurves = Null
                   \/ (twinEfwCurves # Null /\ twinEfwCurves.weeks = <<>>)
                   \/ isNaN(call.m)
                   \/ Le(call.m, Num(0)))) =>
        /\ call.res = NaN
        /\ calculateEFWPercentileEarly(twinEfwCurves, call.ga, call.m) = NaN

\* a call with a positive measurement before the weight table is loaded
C6_Witness ==
    /\ IsEfwCall /\ twinEfwCurves = Null /\ Positive(call.m) /\ call.res = NaN

(* C7: calculateACPercentile returns NaN when the measurement is <= 0 or    *)
(* NaN, or the circumference table has no keys.                             *)
C7_AcNoResult ==
    (IsAcCall /\ (\/ twinAcTable = <<>>
                  \/ isNaN(call.m)
                  \/ Le(call.m, Num(0)))) => call.res = NaN

(* C8: for a positive measurement and a circumference table with a key,     *)
(* calculateACPercentile returns NaN exactly when the selected row has no   *)
(* entries.                                                                 *)
C8_AcNaNOnlyForEmptyRow ==
    (IsAcCall /\ Positive(call.m) /\ twinAcTable # <<>>) =>
        (call.res = NaN <=> CallPairs = {})

\* a number for a row whose values do not increase with the percentile
C8_Witness ==
    /\ IsAcCall /\ Positive(call.m) /\ twinAcTable # <<>>
    /\ ~StrictlyIncreasing(CallPairs)
    /\ ~AtOrBelowMin(CallPairs, call.m) /\ ~AtOrAboveMax(CallPairs, call.m)
    /\ IsNum(call.res)

\* the weight of a twin as the user entered it
EnteredEfw(twin) == parseFloat(fields[EfwField(twin)])

\* the text shows x to one decimal: the nearest tenth, the upper one on a tie
ShowsPercent(text, x) ==
    /\ text.k = "percent"
    /\ LET t == Num(text.tenths)
           tenX == Mul(x, Num(10))
       IN  /\ Le(Sub(tenX, t), Rat(1, 2))
           /\ Lt(Sub(t, tenX), Rat(1, 2)) \/ Sub(t, tenX) = Rat(1, 2)

(* C9: once the handlers run, the discordancy field shows                   *)
(* |efwA - efwB| / max(efwA, efwB) * 100 to one decimal when both entered   *)
(* weights are strictly positive numbers (0.0 for 1000 and 1000, 20.0 for   *)
(* 800 and 1000) and is blank when either is zero, negative, empty or not   *)
(* a number; the per-row variant of updateResults computes the same text.   *)
C9_Discordancy ==
    handlersAttached =>
        LET a == EnteredEfw(1)
            b == EnteredEfw(2)
        IN  /\ IF Positive(a) /\ Positive(b)
               THEN ShowsPercent(results["discordancy"],
                       Mul(Div(MathAbs(Sub(a, b)), IF Ge(a, b) THEN a ELSE b), Num(100)))
               ELSE results["discordancy"] = Blank
            /\ (a = Num(1000) /\ b = Num(1000)) => results["discordancy"].tenths = 0
            /\ ({a, b} = {Num(800), Num(1000)}) => results["discordancy"].tenths = 200
            /\ discordancyTextPerRow(fields) = results["discordancy"]

C9_Witness ==
    /\ handlersAttached
    /\ EnteredEfw(1) = Num(800) /\ EnteredEfw(2) = Num(1000)
    /\ results["discordancy"] = [k |-> "percent", tenths |-> 200]

-----------------------------------------------------------------------------
\* the pairs of the row selected for ga, as calculateEFWPercentile sorts them
SortedEfwPairs(t, ga) == sortByV(efwPairs(t, findNearestEfwWeekIndex(t, ga)))

(* C13: a positive measurement strictly between the values of two adjacent  *)
(* pairs a and b of the selected row, sorted by value, gets                 *)
(* a.p + (m - a.v) / (b.v - a.v) * (b.p - a.p); for a week-20 row with      *)
(* percentile 50 at 350 and percentile 90 at 450 a measurement of 400       *)
(* gives 70.                                                                *)
C13_Interpolation ==
    /\ (IsEfwCall /\ twinEfwCurves # Null /\ Positive(call.m)) =>
          LET pairs == SortedEfwPairs(twinEfwCurves, call.ga)
          IN  \A i \in 1..(Len(pairs) - 1) :
                 (Lt(pairs[i].v, call.m) /\ Lt(call.m, pairs[i + 1].v)) =>
                    call.res = Add(pairs[i].p,
                                   Mul(Div(Sub(call.m, pairs[i].v),
                                           Sub(pairs[i + 1].v, pairs[i].v)),
                                       Sub(pairs[i + 1].p, pairs[i].p)))
    /\ calculateEFWPercentile(loadTwinEfwCurves(UiEfwCsv), Num(20), Num(400)) = Num(70)

\* measurement 5 between percentile 50 at 4 and percentile 90 at 6 gave 70
C13_Witness ==
    /\ IsEfwCall /\ twinEfwCurves # Null /\ call.m = Num(5) /\ call.res = Num(70)
    /\ LET pairs == SortedEfwPairs(twinEfwCurves, call.ga)
       IN  \E i \in 1..(Len(pairs) - 1) :
              /\ pairs[i] = [p |-> Num(50), v |-> Num(4)]
              /\ pairs[i + 1] = [p |-> Num(90), v |-> Num(6)]

-----------------------------------------------------------------------------
IsWeekIndexCall == call.fn = "findNearestEfwWeekIndex"

\* |weeks[j] - ga|
WeekDistance(t, j, ga) == MathAbs(Sub(At(t.weeks, j), ga))

\* index i is the first of the rows of t that are nearest to ga
FirstNearestWeek(t, i, ga) ==
    /\ i \in 0..(Len(t.weeks) - 1)
    /\ \A j \in 0..(Len(t.weeks) - 1) : Le(WeekDistance(t, i, ga), WeekDistance(t, j, ga))
    /\ \A j \in 0..(i - 1) : Lt(WeekDistance(t, i, ga), WeekDistance(t, j, ga))

(* C14: for a weight table with at least one row, in any order of weeks,    *)
(* and a numeric age, findNearestEfwWeekIndex (current and earlier variant) *)
(* returns an index whose week is at minimal absolute distance from the     *)
(* age, and the lowest index among the rows at that distance.               *)
C14_NearestWeekIndex ==
    (/\ IsWeekIndexCall /\ twinEfwCurves # Null /\ IsNum(call.ga)
     /\ Len(twinEfwCurves.weeks) > 0) =>
        /\ FirstNearestWeek(twinEfwCurves, call.res.n, call.ga)
        /\ FirstNearestWeek(twinEfwCurves,
                            findNearestEfwWeekIndexEarly(twinEfwCurves, call.ga), call.ga)

\* weeks 22 then 20, age 21: both rows are at distance 1 and index 0 is returned
C14_Witness ==
    /\ IsWeekIndexCall /\ twinEfwCurves # Null /\ call.ga = Num(21)
    /\ twinEfwCurves.weeks = <<Num(22), Num(20)>>
    /\ call.res = Num(0)

-----------------------------------------------------------------------------
IsNearestGACall == call.fn = "findNearestGA"

\* the gestational ages of the rows of a dataset in file order, skipped rows left out
RECURSIVE fileKeys(_)
fileKeys(lines) ==
    IF lines = <<>> THEN <<>>
    ELSE (IF Head(lines).blank \/ isNaN(parseFloat(Head(lines).ga)) THEN <<>>
          ELSE <<parseFloat(Head(lines).ga)>>) \o fileKeys(Tail(lines))

\* key is the first, in the order keys, of the keys nearest to ga
FirstNearestKey(keys, key, ga) ==
    \E i \in DOMAIN keys :
        /\ keys[i] = key
        /\ \A j \in DOMAIN keys :
              Le(MathAbs(Sub(keys[i], ga)), MathAbs(Sub(keys[j], ga)))
        /\ \A j \in 1..(i - 1) :
              Lt(MathAbs(Sub(keys[i], ga)), MathAbs(Sub(keys[j], ga)))

(* C15: findNearestGA returns a key at minimal absolute distance from the   *)
(* age, and among equally distant keys the key of the row that comes first  *)
(* in the circumference dataset as loaded.                                  *)
C15_FirstLoadedKeyOnTie ==
    (IsNearestGACall /\ "ac" \in loaded /\ IsNum(call.ga) /\ twinAcTable # <<>>) =>
        FirstNearestKey(fileKeys(acCsv.lines), call.res, call.ga)

-----------------------------------------------------------------------------
\* the pairs that the last percentile call collected from its row: in column
\* order for the weight table, in label order for the circumference table
CollectedPairs ==
    IF IsEfwCall /\ twinEfwCurves # Null
    THEN efwPairs(twinEfwCurves, findNearestEfwWeekIndex(twinEfwCurves, call.ga))
    ELSE IF IsAcCall /\ twinAcTable # <<>>
    THEN LET row == tableGet(twinAcTable, findNearestGA(twinAcTable, call.ga))
             percentiles == sortAsc(DOMAIN row)
         IN  [i \in DOMAIN percentiles |-> [p |-> percentiles[i], v |-> row[percentiles[i]]]]
    ELSE <<>>

\* no two of the pairs carry the same percentile label
DistinctLabels(pairs) ==
    \A i, j \in DOMAIN pairs : pairs[i].p = pairs[j].p => i = j

\* the circumference row that holds the pairs
rowOfPairs(pairs) ==
    [p \in {pairs[i].p : i \in DOMAIN pairs} |->
        (CHOOSE a \in {pairs[i] : i \in DOMAIN pairs} : a.p = p).v]

(* C16: on the same pairs, with distinct labels and values that increase    *)
(* strictly with the label, the procedure of calculateACPercentile (ordered *)
(* by percentile) and the procedure of calculateEFWPercentile (ordered by   *)
(* value) return the same result for every positive measurement.            *)
C16_SameProcedure ==
    LET pairs == CollectedPairs
    IN  (/\ IsEfwCall \/ IsAcCall
         /\ Positive(call.m)
         /\ DistinctLabels(pairs)
         /\ StrictlyIncreasing({pairs[i] : i \in DOMAIN pairs})) =>
            /\ efwLookup(pairs, call.m) = acLookup(rowOfPairs(pairs), call.m)
            /\ IsEfwCall /\ twinEfwCurves # Null => call.res = efwLookup(pairs, call.m)
            /\ IsAcCall /\ twinAcTable # <<>> => call.res = acLookup(rowOfPairs(pairs), call.m)

\* an interpolated result on a row whose columns are not in label order
C16_Witness ==
    LET pairs == CollectedPairs
    IN  /\ IsEfwCall /\ Positive(call.m) /\ IsNum(call.res)
        /\ Len(pairs) = 3 /\ DistinctLabels(pairs)
        /\ StrictlyIncreasing({pairs[i] : i \in DOMAIN pairs})
        /\ sortByV(pairs) # pairs
        /\ \A i \in DOMAIN pairs : call.res # pairs[i].p
        /\ acLookup(rowOfPairs(pairs), call.m) = call.res

-----------------------------------------------------------------------------
(* C17: once loadTwinEfwCurves has completed, on any dataset, every column  *)
(* of the weight table has as many entries as weeks, and there are as many  *)
(* percentile labels as columns.                                            *)
C17_ColumnLengths ==
    "efw" \in loaded =>
        /\ \A i \in DOMAIN twinEfwCurves.data :
              Len(twinEfwCurves.data[i]) = Len(twinEfwCurves.weeks)
        /\ Len(twinEfwCurves.percentiles) = Len(twinEfwCurves.data)

-----------------------------------------------------------------------------
BothLoaded == loaded = {"efw", "ac"}

\* createChart, attachInputHandlers or a percentile calculation has run
StartupRan ==
    \/ handlersAttached
    \/ growthChart # Null
    \/ \E r \in ResultIds : results[r] # Blank

(* C11: in every interleaving of the two loads, createChart,                *)
(* attachInputHandlers and every updateResults run only after both          *)
(* loadTwinEfwCurves and loadTwinAcTable have populated their tables; no    *)
(* input handler exists, and no result changes, before that.                *)
C11_StartupAfterBothLoads ==
    /\ [](StartupRan =>
            /\ BothLoaded
            /\ twinEfwCurves = loadTwinEfwCurves(efwCsv)
            /\ twinAcTable = loadTwinAcTable(<<>>, acCsv))
    /\ [][(\/ results' # results
           \/ growthChart' # growthChart
           \/ handlersAttached' # handlersAttached) => (BothLoaded /\ loaded' = loaded)]_vars

\* the handlers are attached and a percentile is displayed
C11_Witness ==
    /\ handlersAttached /\ BothLoaded /\ growthChart # Null
    /\ results["efw1"].k = "percent" /\ results["ac1"].k = "percent"

-----------------------------------------------------------------------------
\* what the engine returns for the entered weight / circumference of a twin
EnginePercentile(r) ==
    CASE r = "efw1" -> calculateEFWPercentile(twinEfwCurves, totalGAOf(fields), twinValue(fields["efw1"]))
      [] r = "efw2" -> calculateEFWPercentile(twinEfwCurves, totalGAOf(fields), twinValue(fields["efw2"]))
      [] r = "ac1" -> calculateACPercentile(twinAcTable, totalGAOf(fields), twinValue(fields["ac1"]))
      [] r = "ac2" -> calculateACPercentile(twinAcTable, totalGAOf(fields), twinValue(fields["ac2"]))

\* the input element that the result element r belongs to
MeasurementOf(r) == twinValue(fields[r])

\* the measurement is not positive, or the age is below the accepted minimum
Insufficient(r, minGA, strict) ==
    \/ ~Gt(MeasurementOf(r), Num(0))
    \/ IF strict THEN ~Gt(totalGAOf(fields), Num(minGA))
       ELSE ~Ge(totalGAOf(fields), Num(minGA))

\* the text of a percentile field is blank when it has to be, and else the
\* number that the engine returned
BlankOrNumeric(text, r, minGA, strict) ==
    /\ Insufficient(r, minGA, strict) => text = Blank
    /\ (~Insufficient(r, minGA, strict) /\ isNaN(EnginePercentile(r))) => text = Blank
    /\ text # Blank =>
          /\ IsNum(EnginePercentile(r))
          /\ text = [k |-> "percent", tenths |-> toFixed1(EnginePercentile(r))]

(* C12: once the handlers are attached, a percentile field is the empty     *)
(* string whenever the measurement is not positive, the gestational age is  *)
(* below the minimum (14 weeks; above 0 in the per-row variant) or the      *)
(* engine returns NaN; otherwise it shows the number the engine returned.   *)
C12_BlankWhenNoResult ==
    handlersAttached =>
        \A r \in {"efw1", "efw2", "ac1", "ac2"} :
            /\ BlankOrNumeric(results[r], r, 14, FALSE)
            /\ BlankOrNumeric(resultsAfterUpdatePerRow(fields, twinEfwCurves, twinAcTable)[r],
                              r, 0, TRUE)

\* a weight of 400 at 20 weeks, a weight table without rows: the field is blank
C12_Witness ==
    /\ handlersAttached
    /\ fields["efw1"] = NumCell(400, 1) /\ fields["weeks"] = NumCell(20, 1)
    /\ twinEfwCurves.weeks = <<>>
    /\ isNaN(EnginePercentile("efw1"))
    /\ results["efw1"] = Blank
    /\ results["ac1"].k = "percent"

-----------------------------------------------------------------------------
\* the lines of a dataset that the loaders do not skip
KeptLines(csv) ==
    {i \in DOMAIN csv.lines :
        ~csv.lines[i].blank /\ ~isNaN(parseFloat(csv.lines[i].ga))}

\* an empty dataset, or a kept line with a cell that is not a number
Malformed(csv) ==
    \/ KeptLines(csv) = {}
    \/ \E i \in KeptLines(csv) : \E j \in DOMAIN csv.lines[i].cells :
          isNaN(parseFloat(csv.lines[i].cells[j]))

(* C18: a loader does not complete on a malformed dataset (no data row, or  *)
(* a cell that is not a number): it fails instead of producing a table; and *)
(* after a failed load the startup has not run, and only a failed load is   *)
(* reported.                                                                *)
C18_MalformedLoadFails ==
    /\ "efw" \in loaded => ~Malformed(efwCsv)
    /\ "ac" \in loaded => ~Malformed(acCsv)
    /\ failed # {} => ~StartupRan
    /\ errorLogged => failed # {}

-----------------------------------------------------------------------------
\* the line is not blank and its first column is not a number
NonNumericFirstColumn(line) == ~line.blank /\ isNaN(parseFloat(line.ga))

RECURSIVE dropNonNumericRows(_)
dropNonNumericRows(lines) ==
    IF lines = <<>> THEN <<>>
    ELSE (IF NonNumericFirstColumn(Head(lines)) THEN <<>> ELSE <<Head(lines)>>)
            \o dropNonNumericRows(Tail(lines))

\* the dataset without its rows whose first column is not a number
WithoutNonNumericRows(csv) == [csv EXCEPT !.lines = dropNonNumericRows(@)]

(* C19: a row whose first column is not a number adds nothing to weeks, to  *)
(* the data columns or to the keys of the circumference table and does not  *)
(* end the load: each loader leaves the table, and ends the way, it would   *)
(* on the dataset without those rows.                                       *)
C19_NonNumericRowSkipped ==
    /\ twinEfwCurves # Null =>
          /\ twinEfwCurves = loadTwinEfwCurves(WithoutNonNumericRows(efwCsv))
          /\ \A i \in DOMAIN twinEfwCurves.weeks : IsNum(twinEfwCurves.weeks[i])
          /\ Len(twinEfwCurves.weeks) <= Cardinality(KeptLines(efwCsv))
          /\ "efw" \in failed <=> efwLoadThrows(WithoutNonNumericRows(efwCsv))
    /\ "ac" \in loaded =>
          /\ twinAcTable = loadTwinAcTable(<<>>, WithoutNonNumericRows(acCsv))
          /\ \A i \in DOMAIN twinAcTable :
                \E j \in KeptLines(acCsv) : twinAcTable[i].ga = parseFloat(acCsv.lines[j].ga)

\* a row with a text in its first column, then the row of week 20: only the
\* second is in the table
C19_Witness ==
    /\ "efw" \in loaded
    /\ Len(efwCsv.lines) = 2
    /\ NonNumericFirstColumn(efwCsv.lines[1])
    /\ twinEfwCurves.weeks = <<Num(20)>>
    /\ twinEfwCurves.data[1] = <<Num(300)>>

-----------------------------------------------------------------------------
\* the percentile that the claim gives the header label h: X * 100 for qX,
\* the value of a bare number, NaN for a label that does not parse
NormalizedLabel(h) ==
    IF h.body.k # "num" THEN NaN
    ELSE IF h.q THEN Rat(100 * h.body.n, h.body.d)
    ELSE Rat(h.body.n, h.body.d)

\* the columns of the weight table whose label is a number
NumericColumns(t) == {i \in DOMAIN t.percentiles : IsNum(t.percentiles[i])}

RECURSIVE keepColumns(_, _)
keepColumns(s, keep) ==
    IF s = <<>> THEN <<>>
    ELSE keepColumns(SubSeq(s, 1, Len(s) - 1), keep)
            \o (IF Len(s) \in keep THEN <<s[Len(s)]>> ELSE <<>>)

\* the weight table without the columns whose label is NaN
WithoutNaNColumns(t) ==
    [t EXCEPT !.percentiles = keepColumns(@, NumericColumns(t)),
              !.data = keepColumns(@, NumericColumns(t))]

(* C20: a loaded header label qX is stored as X * 100 and a bare number as  *)
(* its value; a label that does not parse is NaN in the weight table and    *)
(* is no key of a circumference row; its column takes part in no            *)
(* interpolation, and the loaders throw on no label.                       *)
C20_HeaderNormalized ==
    /\ "efw" \in loaded =>
          /\ Len(twinEfwCurves.percentiles) = Len(efwCsv.header)
          /\ \A i \in DOMAIN efwCsv.header :
                twinEfwCurves.percentiles[i] = NormalizedLabel(efwCsv.header[i])
    /\ "ac" \in loaded =>
          \A e \in DOMAIN twinAcTable : \A p \in DOMAIN twinAcTable[e].row :
              /\ IsNum(p)
              /\ \E i \in DOMAIN acCsv.header : p = NormalizedLabel(acCsv.header[i])
    /\ \A h \in Headers \cup LoadHeaders :
          ~efwLoadThrows([header |-> h, lines |-> <<>>])
    /\ (IsEfwCall /\ twinEfwCurves # Null) =>
          /\ call.res = calculateEFWPercentile(WithoutNaNColumns(twinEfwCurves), call.ga, call.m)
          /\ \A i \in DOMAIN CollectedPairs : IsNum(CollectedPairs[i].p)

\* header q0.1, an unparseable label, 90: the labels are 10, NaN and 90, and a
\* measurement between the two numeric columns is interpolated between them
C20_Witness ==
    /\ IsEfwCall /\ "efw" \in loaded
    /\ efwCsv.header = <<QLabel(1, 10), BadLabel, BareLabel(90)>>
    /\ twinEfwCurves.percentiles = <<Num(10), NaN, Num(90)>>
    /\ IsNum(call.res) /\ Lt(Num(10), call.res) /\ Lt(call.res, Num(90))

-----------------------------------------------------------------------------
\* the datasets of the chart after its percentile curves
MarkersOn(chart) == SubSeq(chart.datasets, chart.curveCount + 1, Len(chart.datasets))

\* the curves that createChart built, in their order, then at most one
\* 'Twin 1' and at most one 'Twin 2' marker dataset
CurvesThenMarkers(chart, t) ==
    LET markers == MarkersOn(chart)
    IN  /\ chart.curveCount = Len(createChart(t).datasets)
        /\ Len(chart.datasets) >= chart.curveCount
        /\ SubSeq(chart.datasets, 1, chart.curveCount) = createChart(t).datasets
        /\ \A i \in DOMAIN markers :
              markers[i].type = "scatter" /\ markers[i].id \in {Num(1), Num(2)}
        /\ \A i, j \in DOMAIN markers : markers[i].id = markers[j].id => i = j
        /\ \A i, j \in DOMAIN markers : i < j => markers[i].id.n < markers[j].id.n

(* C21: whatever the number of curves recorded at the creation of the       *)
(* chart, zero included, the datasets of the chart are always the curves of *)
(* createChart in their order followed by at most one 'Twin 1' and at most  *)
(* one 'Twin 2' marker dataset.                                             *)
C21_MarkersNeverAccumulate ==
    growthChart # Null => CurvesThenMarkers(growthChart, twinEfwCurves)

-----------------------------------------------------------------------------
\* the weight of twin k is a positive number and weeks + days / 7 is a
\* number from 14 to 41
MarkerDue(f, twin) ==
    /\ Positive(parseFloat(f[EfwField(twin)]))
    /\ IsNum(totalGAOf(f))
    /\ Ge(totalGAOf(f), Num(14)) /\ Le(totalGAOf(f), Num(41))

\* the chart shows the marker of twin k exactly if it is due, at the current
\* gestational age and weight
MarkerCurrent(chart, f, twin) ==
    LET shown == {i \in DOMAIN MarkersOn(chart) : MarkersOn(chart)[i].id = Num(twin)}
    IN  IF MarkerDue(f, twin)
        THEN /\ shown # {}
             /\ \A i \in shown :
                   /\ MarkersOn(chart)[i].x = totalGAOf(f)
                   /\ MarkersOn(chart)[i].y = parseFloat(f[EfwField(twin)])
        ELSE shown = {}

(* C22: in the shared-age variant, when an input or change handler has      *)
(* completed, the chart shows the marker of twin k if and only if the       *)
(* weight of twin k is a positive number and the gestational age is a       *)
(* number in [14, 41], at those current values.                             *)
C22_NoStaleMarkers ==
    [][handlersAttached =>
          \A twin \in Twins : MarkerCurrent(growthChart', fields', twin)]_vars

====
